---------------------------- MODULE Spec2Model ----------------------------
(***************************************************************************)
(* Kalbi "Quantamental Trader": the decision core (signal fusion, edge,    *)
(* Kelly position sizing, order validation), the kill switch, the trade    *)
(* log and the main event loop of QuantamentalTrader.run_bot.              *)
(*                                                                         *)
(* Numbers.  The program computes in binary floating point; the model      *)
(* computes the same expressions in exact fixed point:                     *)
(*   - fundamental_prob and the five signals: thousandths (0.65 = 650);    *)
(*   - hybrid_prob, edge, our_prob, kelly_full: millionths (0.08 = 80000); *)
(*   - position_dollars: millionths of a dollar;                           *)
(*   - prices: integer cents, as in the program;                           *)
(*   - rsi_14, obv, volume_sma_5, hours_to_expiration: integers;           *)
(*   - macd_hist: hundredths (0.02 = 2).                                   *)
(* A float that is NaN, and a value of the wrong type (a string), are      *)
(* values of their own, with Python's behaviour for comparison and         *)
(* arithmetic.                                                             *)
(***************************************************************************)
EXTENDS Integers, Sequences, FiniteSets, TLC

VARIABLES
    call,               \* SpecCore: the last call of a core function
    pc,                 \* run_bot: position in the event loop
    TRADING_MODE,       \* config.TRADING_MODE
    sentinel,           \* os.path.exists(config.KILL_SWITCH_FILE)
    loop_count,         \* self.loop_count
    trade_count,        \* self.trade_count
    processed_markets,  \* self.processed_markets
    markets,            \* the list returned by get_politics_markets
    i,                  \* position of the for loop in markets
    cur,                \* locals of the current market iteration
    wait_i,             \* iterations done of the sleep loop between scans
    idle_unpolled,      \* seconds of idle wait since the last kill-switch check
    last_call,          \* the last call of validate_order / place_order / log_trade
    trade_log,          \* lines of /app/trades.log
    exchange_orders,    \* orders the exchange has accepted (create_order succeeded)
    error_cause,        \* what raised the exception the main loop is handling
    shutdown            \* why run_bot ended: the message it printed

coreVars == <<call>>
botVars == <<pc, TRADING_MODE, sentinel, loop_count, trade_count, processed_markets,
             markets, i, cur, wait_i, idle_unpolled, last_call,
             trade_log, exchange_orders, error_cause, shutdown>>
vars == <<call, pc, TRADING_MODE, sentinel, loop_count, trade_count, processed_markets,
          markets, i, cur, wait_i, idle_unpolled, last_call,
          trade_log, exchange_orders, error_cause, shutdown>>

----------------------------------------------------------------------------
(* Values *)

Num(x) == [tag |-> "num", v |-> x]
NaN == [tag |-> "nan", v |-> 0]
Str == [tag |-> "str", v |-> 0]
Absent == [tag |-> "absent", v |-> 0]
Raise == [tag |-> "raise", v |-> 0]

Min(a, b) == IF a < b THEN a ELSE b
Max(a, b) == IF a > b THEN a ELSE b

\* np.clip(x, lo, hi)
Clip(x, lo, hi) == Min(Max(x, lo), hi)

\* int(a / b) for b # 0: truncation toward zero
Trunc(a, b) ==
    IF (a >= 0) = (b > 0) THEN (IF a >= 0 THEN a ELSE -a) \div (IF b > 0 THEN b ELSE -b)
    ELSE -((IF a >= 0 THEN a ELSE -a) \div (IF b > 0 THEN b ELSE -b))

----------------------------------------------------------------------------
(* config.py *)

MIN_EDGE_THRESHOLD == 80000
MAX_POSITION_SIZE == 100
MIN_MARKET_LIQUIDITY == 1000

----------------------------------------------------------------------------
(* module_3_strategy_handler.py: StrategyHandler *)

\* self.signal_weights, in hundredths
signal_weights ==
    [fundamental |-> 40, momentum |-> 25, mean_reversion |-> 15,
     volume |-> 10, time_decay |-> 10]

SignalNames == {"fundamental", "momentum", "mean_reversion", "volume", "time_decay"}

FeatureKeys == {"macd_hist", "rsi_14", "volume_sma_5", "obv", "hours_to_expiration"}

\* quant_features.get(key, default)
Get(qf, key, default) == IF key \in DOMAIN qf THEN qf[key] ELSE Num(default)

\* 1 / (1 + np.exp(-macd_hist * 10)), in thousandths, rounded to the nearest;
\* macd_hist in hundredths.  np.exp overflows to inf without raising, so the
\* value at -10.00 is 0 and the value at 10.00 is 1.
Logistic(m) ==
    CASE m = -1000 -> 0
      [] m = -50   -> 7
      [] m = -10   -> 269
      [] m = -2    -> 450
      [] m = 2     -> 550
      [] m = 10    -> 731
      [] m = 50    -> 993
      [] m = 1000  -> 1000

\* signals['momentum']
momentum(qf) ==
    LET macd_hist == Get(qf, "macd_hist", 0) IN
    CASE macd_hist.tag = "str" -> Raise      \* -macd_hist: TypeError
      [] macd_hist.tag = "nan" -> NaN        \* nan != 0, and the transform of nan is nan
      [] OTHER -> IF macd_hist.v # 0 THEN Num(Logistic(macd_hist.v)) ELSE Num(500)

\* the three formulas of signals['mean_reversion']
MeanRevLow(rsi) == 700 + (30 - rsi) * 10
MeanRevHigh(rsi) == 300 - (rsi - 70) * 10
MeanRevMid(rsi) == 500 + (50 - rsi) * 2

\* signals['mean_reversion'] with the seams 30 and 70 given to the outer formulas
MeanReversionClosedSeams(qf) ==
    LET rsi == Get(qf, "rsi_14", 50) IN
    CASE rsi.tag = "str" -> Raise
      [] rsi.tag = "nan" -> NaN
      [] OTHER ->
           IF rsi.v <= 30 THEN Num(MeanRevLow(rsi.v))
           ELSE IF rsi.v >= 70 THEN Num(MeanRevHigh(rsi.v))
           ELSE Num(MeanRevMid(rsi.v))

\* signals['mean_reversion']
mean_reversion(qf) ==
    LET rsi == Get(qf, "rsi_14", 50) IN
    CASE rsi.tag = "str" -> Raise            \* rsi < 30: TypeError
      [] rsi.tag = "nan" -> NaN              \* both comparisons false; the else formula gives nan
      [] OTHER ->
           IF rsi.v < 30 THEN Num(MeanRevLow(rsi.v))
           ELSE IF rsi.v > 70 THEN Num(MeanRevHigh(rsi.v))
           ELSE Num(MeanRevMid(rsi.v))

\* signals['volume'] with the ratio min(obv / current_volume, 10) not divided by 10
VolumeRatioNotNormalized(qf) ==
    LET current_volume == Get(qf, "volume_sma_5", 1000)
        obv == Get(qf, "obv", 0)
    IN
    CASE current_volume.tag = "str" -> Raise
      [] current_volume.tag = "nan" -> Num(500)
      [] current_volume.v <= 0 -> Num(500)
      [] obv.tag = "str" -> Raise
      [] obv.tag = "nan" -> Num(500)
      [] obv.v <= 0 -> Num(500)
      [] OTHER ->
           LET volume_ratio == Min((obv.v * 1000) \div current_volume.v, 10 * 1000)
           IN Num(500 + ((volume_ratio - 500) * 5) \div 10)

\* signals['volume']
volume(qf) ==
    LET current_volume == Get(qf, "volume_sma_5", 1000)
        obv == Get(qf, "obv", 0)
    IN
    CASE current_volume.tag = "str" -> Raise             \* current_volume > 0: TypeError
      [] current_volume.tag = "nan" -> Num(500)          \* nan > 0 is false
      [] current_volume.v <= 0 -> Num(500)               \* obv > 0 is not evaluated
      [] obv.tag = "str" -> Raise                        \* obv > 0: TypeError
      [] obv.tag = "nan" -> Num(500)
      [] obv.v <= 0 -> Num(500)
      [] OTHER ->
           LET volume_ratio == Min((obv.v * 1000) \div current_volume.v, 10 * 1000) \div 10
           IN Num(500 + ((volume_ratio - 500) * 5) \div 10)

\* signals['time_decay'] without the min/max bounds
TimeDecayUnbounded(fundamental_prob, qf) ==
    LET hours_remaining == Get(qf, "hours_to_expiration", 24) IN
    CASE hours_remaining.tag = "str" -> Raise
      [] hours_remaining.tag = "nan" -> Num(fundamental_prob)
      [] OTHER ->
           IF hours_remaining.v < 6 THEN
               IF fundamental_prob > 500 THEN Num(fundamental_prob + 200)
               ELSE Num(fundamental_prob - 200)
           ELSE IF hours_remaining.v < 24 THEN
               IF fundamental_prob > 500 THEN Num(fundamental_prob + 100)
               ELSE Num(fundamental_prob - 100)
           ELSE Num(fundamental_prob)

\* signals['time_decay'] with fundamental_prob = 0.5 counted as favouring yes
TimeDecayHalfBullish(fundamental_prob, qf) ==
    LET hours_remaining == Get(qf, "hours_to_expiration", 24) IN
    CASE hours_remaining.tag = "str" -> Raise
      [] hours_remaining.tag = "nan" -> Num(fundamental_prob)
      [] OTHER ->
           IF hours_remaining.v < 6 THEN
               IF fundamental_prob >= 500 THEN Num(Min(fundamental_prob + 200, 950))
               ELSE Num(Max(fundamental_prob - 200, 50))
           ELSE IF hours_remaining.v < 24 THEN
               IF fundamental_prob >= 500 THEN Num(Min(fundamental_prob + 100, 900))
               ELSE Num(Max(fundamental_prob - 100, 100))
           ELSE Num(fundamental_prob)

\* signals['time_decay']
time_decay(fundamental_prob, qf) ==
    LET hours_remaining == Get(qf, "hours_to_expiration", 24) IN
    CASE hours_remaining.tag = "str" -> Raise            \* hours_remaining < 6: TypeError
      [] hours_remaining.tag = "nan" -> Num(fundamental_prob)   \* both comparisons false
      [] OTHER ->
           IF hours_remaining.v < 6 THEN
               IF fundamental_prob > 500 THEN Num(Min(fundamental_prob + 200, 950))
               ELSE Num(Max(fundamental_prob - 200, 50))
           ELSE IF hours_remaining.v < 24 THEN
               IF fundamental_prob > 500 THEN Num(Min(fundamental_prob + 100, 900))
               ELSE Num(Max(fundamental_prob - 100, 100))
           ELSE Num(fundamental_prob)

\* the signals dictionary built by generate_hybrid_forecast
Signals(fundamental_prob, qf) ==
    [fundamental |-> Num(fundamental_prob),
     momentum |-> momentum(qf),
     mean_reversion |-> mean_reversion(qf),
     volume |-> volume(qf),
     time_decay |-> time_decay(fundamental_prob, qf)]

RECURSIVE SumOver(_, _)
SumOver(f, S) ==
    IF S = {} THEN 0
    ELSE LET x == CHOOSE y \in S : TRUE IN f[x] + SumOver(f, S \ {x})

\* _apply_kelly_adjustment(prob, confidence = 0.7): prob in hundred-thousandths,
\* the result in millionths
ApplyKellyAdjustmentNoClip(prob) == 500000 + (prob - 50000) * 7

apply_kelly_adjustment(prob) ==
    LET adjusted == 500000 + (prob - 50000) * 7
    IN Clip(adjusted, 50000, 950000)

\* the try block of generate_hybrid_forecast: Raise, NaN or the hybrid
\* probability in millionths
Ensemble(fundamental_prob, qf) ==
    LET signals == Signals(fundamental_prob, qf) IN
    IF \E n \in SignalNames : signals[n].tag = "raise" THEN Raise
    ELSE IF \E n \in SignalNames : signals[n].tag = "nan" THEN NaN
    ELSE
        LET weighted_sum == SumOver([n \in SignalNames |-> signals[n].v * signal_weights[n]],
                                    SignalNames)
            total_weight == SumOver(signal_weights, SignalNames)
            hybrid_prob == IF total_weight > 0
                           THEN (weighted_sum * 100) \div total_weight
                           ELSE fundamental_prob * 100
        IN Num(apply_kelly_adjustment(hybrid_prob))

\* generate_hybrid_forecast without its except clause
ForecastWithoutExcept(fundamental_prob, qf) ==
    IF DOMAIN qf = {} THEN Num(fundamental_prob * 1000)
    ELSE Ensemble(fundamental_prob, qf)

\* generate_hybrid_forecast without the test of lines 38-40
ForecastWithoutShortCircuit(fundamental_prob, qf) ==
    LET r == Ensemble(fundamental_prob, qf) IN
    IF r.tag = "raise" THEN Num(fundamental_prob * 1000) ELSE r

\* generate_hybrid_forecast(fundamental_prob, quant_features): millionths, or NaN
generate_hybrid_forecast(fundamental_prob, qf) ==
    IF DOMAIN qf = {} THEN Num(fundamental_prob * 1000)
    ELSE LET r == Ensemble(fundamental_prob, qf) IN
         IF r.tag = "raise" THEN Num(fundamental_prob * 1000) ELSE r

----------------------------------------------------------------------------
(* utils.py: RiskManager *)

Ret(n) == [tag |-> "ret", v |-> n]

\* int(position_dollars / contract_price_dollars).  The program divides floats:
\* where the exact quotient is a nonzero integer the float quotient is that
\* integer or falls just below it in magnitude (edge 0.2 at 50 cents gives
\* 199.99999999999997, hence 199 contracts); rounds_down says which.
FloatQuotient(position_dollars, contract_price, rounds_down) ==
    LET q == Trunc(position_dollars, contract_price) IN
    IF rounds_down /\ q # 0 /\ q * contract_price = position_dollars
    THEN (IF q > 0 THEN q - 1 ELSE q + 1)
    ELSE q

\* lines 44-87 of calculate_position_size: the sizing once edge > 0.
\* edge in millionths, market_price in cents; Ret(num_contracts), or Raise
\* where position_dollars / contract_price_dollars divides by zero.
KellySize(edge, market_price, rounds_down) ==
    LET market_prob == market_price * 10000
        our_prob == Clip(market_prob + edge, 10000, 990000)
        win_prob == our_prob
        lose_prob == 1000000 - our_prob
        kelly_full == win_prob - lose_prob
        \* kelly_full * self.kelly_fraction (0.25), in hundred-millionths
        kelly_adjusted == kelly_full * 25
        \* kelly_adjusted * MAX_POSITION_SIZE / self.max_portfolio_risk (0.10);
        \* kelly_full is even, so the division by ten is exact
        position_kelly == Min(MAX_POSITION_SIZE * 1000000,
                              (kelly_adjusted \div 10) * MAX_POSITION_SIZE)
        position_dollars == IF position_kelly < 1000000 /\ edge > MIN_EDGE_THRESHOLD
                            THEN 1000000 ELSE position_kelly
        \* contract_price_dollars = market_price / 100.0
        contract_price == market_price * 10000
    IN
    IF contract_price = 0 THEN Raise
    ELSE LET num_contracts == FloatQuotient(position_dollars, contract_price, rounds_down) IN
         IF num_contracts = 0 /\ 2 * edge > MIN_EDGE_THRESHOLD * 3
         THEN Ret(1) ELSE Ret(num_contracts)

SizeGuardStrict(edge, market_price, rounds_down) ==
    IF edge < 0 THEN Ret(0) ELSE KellySize(edge, market_price, rounds_down)

\* the sizing with no minimum bet: the Kelly dollars are divided as they are
SizeWithoutMinimumBet(edge, market_price, rounds_down) ==
    LET kelly == 2 * Clip(market_price * 10000 + edge, 10000, 990000) - 1000000
        dollars == Min(MAX_POSITION_SIZE * 1000000,
                       ((kelly * 25) \div 10) * MAX_POSITION_SIZE)
        price == market_price * 10000
    IN
    IF edge <= 0 THEN Ret(0)
    ELSE IF price = 0 THEN Raise
    ELSE LET n == FloatQuotient(dollars, price, rounds_down) IN
         IF n = 0 /\ 2 * edge > MIN_EDGE_THRESHOLD * 3 THEN Ret(1) ELSE Ret(n)

\* calculate_position_size(edge, market_price)
calculate_position_size(edge, market_price, rounds_down) ==
    IF edge <= 0 THEN Ret(0) ELSE KellySize(edge, market_price, rounds_down)

ValidateNoCeiling(ticker, side, count, price) ==
    IF count <= 0 THEN FALSE
    ELSE IF price < 1 \/ price > 99 THEN FALSE
    ELSE IF count * price > MAX_POSITION_SIZE * 100 THEN FALSE
    ELSE TRUE

ValidateCeilingOffByOne(ticker, side, count, price) ==
    IF count <= 0 THEN FALSE
    ELSE IF count >= 1000 THEN FALSE
    ELSE IF price < 1 \/ price > 99 THEN FALSE
    ELSE IF count * price > MAX_POSITION_SIZE * 100 THEN FALSE
    ELSE TRUE

ValidateNotionalStrict(ticker, side, count, price) ==
    IF count <= 0 THEN FALSE
    ELSE IF count > 1000 THEN FALSE
    ELSE IF price < 1 \/ price > 99 THEN FALSE
    ELSE IF count * price >= MAX_POSITION_SIZE * 100 THEN FALSE
    ELSE TRUE

\* validate_order(ticker, side, count, price); total_risk = count * (price / 100.0)
\* is compared in cents
validate_order(ticker, side, count, price) ==
    IF count <= 0 THEN FALSE
    ELSE IF count > 1000 THEN FALSE
    ELSE IF price < 1 \/ price > 99 THEN FALSE
    ELSE IF count * price > MAX_POSITION_SIZE * 100 THEN FALSE
    ELSE TRUE

CheckKeepsSentinel(exists) == [ret |-> exists, exists |-> exists]

CheckNeverDetects(exists) == [ret |-> FALSE, exists |-> exists]

\* check_kill_switch(), given whether KILL_SWITCH_FILE exists: the value returned
\* and whether the file exists afterwards
check_kill_switch(exists) ==
    IF exists THEN [ret |-> TRUE, exists |-> FALSE]
    ELSE [ret |-> FALSE, exists |-> exists]

\* the line log_trade appends (the timestamp left out)
TradeLine(ticker, side, count, price, edge) ==
    [ticker |-> ticker, side |-> side, count |-> count, price |-> price, edge |-> edge]

\* the order place_order builds
Order(ticker, side, count, price) ==
    [ticker |-> ticker, side |-> side, count |-> count, price |-> price]

----------------------------------------------------------------------------
(* The decision core called directly: one call of generate_hybrid_forecast,   *)
(* calculate_position_size or validate_order on each input of a grid, and     *)
(* any sequence of check_kill_switch calls with the operator creating the     *)
(* sentinel in between.                                                       *)

FundProbs == {-100, 0, 300, 500, 650, 1000, 1200}

MacdValues == {Absent, Num(0), Num(-1000), Num(-2), Num(2), Num(1000), NaN, Str}
RsiValues == {Absent, Num(0), Num(29), Num(30), Num(45), Num(70), Num(71), Num(100),
              Num(-1000), Num(1000), NaN, Str}
VolumeValues == {Absent, Num(0), Num(1000), NaN, Str}
ObvValues == {Absent, Num(0), Num(-5000), Num(5000), Num(20000), NaN, Str}
HoursValues == {Absent, Num(0), Num(6), Num(24), Num(48), NaN, Str}

\* the dictionary with the given values, a key being absent where its value is Absent
Features(macd, rsi, vol, obv, hours) ==
    LET all == [macd_hist |-> macd, rsi_14 |-> rsi, volume_sma_5 |-> vol,
                obv |-> obv, hours_to_expiration |-> hours]
        present == {k \in FeatureKeys : all[k].tag # "absent"}
    IN [k \in present |-> all[k]]

SizeEdges == {-200000, -1, 0, 1, 50000, 80000, 80001, 120000, 120001, 200000,
              500000, 900000}
SizePrices == 0..100

OrderCounts == {-1, 0, 1, 2, 100, 101, 200, 201, 1000, 1001, 5000}
OrderPrices == {-1, 0, 1, 50, 99, 100, 101}

NoCall == [fn |-> "none", args |-> <<>>, ret |-> 0]

CallForecast ==
    /\ call.fn = "none"
    /\ \E fp \in FundProbs, macd \in MacdValues, rsi \in RsiValues, vol \in VolumeValues,
       obv \in ObvValues, hours \in HoursValues :
        LET qf == Features(macd, rsi, vol, obv, hours) IN
        /\ call' = [fn |-> "generate_hybrid_forecast",
                    args |-> [fundamental_prob |-> fp, quant_features |-> qf],
                    ret |-> generate_hybrid_forecast(fp, qf)]
        /\ UNCHANGED botVars

CallSize ==
    /\ call.fn = "none"
    /\ \E edge \in SizeEdges, price \in SizePrices, rounds_down \in BOOLEAN :
        /\ call' = [fn |-> "calculate_position_size",
                    args |-> [edge |-> edge, market_price |-> price],
                    ret |-> calculate_position_size(edge, price, rounds_down)]
        /\ UNCHANGED botVars

CallValidate ==
    /\ call.fn = "none"
    /\ \E count \in OrderCounts, price \in OrderPrices :
        /\ call' = [fn |-> "validate_order",
                    args |-> [count |-> count, price |-> price],
                    ret |-> validate_order("T1", "yes", count, price)]
        /\ UNCHANGED botVars

\* check_kill_switch called on the file system as it is
CallCheckKillSwitch ==
    LET r == check_kill_switch(sentinel) IN
    /\ call.fn \in {"none", "check_kill_switch", "create_sentinel"}
    /\ call' = [fn |-> "check_kill_switch", args |-> [exists |-> sentinel], ret |-> r.ret]
    /\ sentinel' = r.exists
    /\ UNCHANGED <<pc, TRADING_MODE, loop_count, trade_count, processed_markets, markets,
                   i, cur, wait_i, idle_unpolled, last_call, trade_log, exchange_orders,
                   error_cause, shutdown>>

\* the operator creates KILL_SWITCH_FILE between two calls
CallCreateSentinel ==
    /\ call.fn \in {"none", "check_kill_switch", "create_sentinel"}
    /\ ~sentinel
    /\ call' = [fn |-> "create_sentinel", args |-> <<>>, ret |-> FALSE]
    /\ sentinel' = TRUE
    /\ UNCHANGED <<pc, TRADING_MODE, loop_count, trade_count, processed_markets, markets,
                   i, cur, wait_i, idle_unpolled, last_call, trade_log, exchange_orders,
                   error_cause, shutdown>>

\* lines 44-103 of generate_hybrid_forecast on a non-empty feature set: the
\* value each of the five signals is given (Raise where its computation raises)
CallSignals ==
    /\ call.fn = "none"
    /\ \E fp \in FundProbs, macd \in MacdValues, rsi \in RsiValues, vol \in VolumeValues,
       obv \in ObvValues, hours \in HoursValues :
        LET qf == Features(macd, rsi, vol, obv, hours) IN
        /\ DOMAIN qf # {}
        /\ call' = [fn |-> "signals",
                    args |-> [fundamental_prob |-> fp, quant_features |-> qf],
                    ret |-> Signals(fp, qf)]
        /\ UNCHANGED botVars

NextCore ==
    \/ CallForecast \/ CallSize \/ CallValidate \/ CallCheckKillSwitch
    \/ CallCreateSentinel \/ CallSignals

----------------------------------------------------------------------------
(* main.py: QuantamentalTrader.run_bot *)

MaxCycles == 2
MaxMarkets == 2

WAIT_TIME == 300
POLL_INTERVAL == 10
NO_MARKETS_SLEEP == 300
ERROR_SLEEP == 60

Tickers == {"T1", "T2"}

\* what get_politics_markets can return: a list of markets, here their tickers
\* (None and the empty list are both false for `not markets`)
MarketLists == UNION {[1..n -> Tickers] : n \in 0..MaxMarkets}

\* what the collaborators report for one market
BotVolumes == {500, 1000}
BotFeatures == {<<>>, [rsi_14 |-> Num(50)], [rsi_14 |-> NaN]}
BotFundProbs == {1000}
BotPrices == {0, 5, 40, 60, 100}

NoCur == [ticker |-> "", position_size |-> 0, price |-> 0, edge |-> 0,
          sentinel_at_start |-> FALSE]
NoLastCall == [fn |-> "none", args |-> <<>>, ret |-> FALSE]

\* edge = hybrid_prob - (current_price_cents / 100.0)
EdgeOf(hybrid_prob, current_price_cents) ==
    IF hybrid_prob.tag = "nan" THEN NaN
    ELSE Num(hybrid_prob.v - current_price_cents * 10000)

\* the test of line 111 with no threshold: any positive edge
EdgePositive(edge) == edge.tag = "num" /\ edge.v > 0

\* edge > config.MIN_EDGE_THRESHOLD (false for nan)
EdgeExceedsThreshold(edge) == edge.tag = "num" /\ edge.v > MIN_EDGE_THRESHOLD

Init ==
    /\ call = NoCall
    /\ pc = "loop_top"
    /\ TRADING_MODE \in {"DEMO", "LIVE"}
    /\ sentinel = FALSE
    /\ loop_count = 0
    /\ trade_count = 0
    /\ processed_markets = {}
    /\ markets = <<>>
    /\ i = 0
    /\ cur = NoCur
    /\ wait_i = 0
    /\ idle_unpolled = 0
    /\ last_call = NoLastCall
    /\ trade_log = <<>>
    /\ exchange_orders = <<>>
    /\ error_cause = "none"
    /\ shutdown = "none"

\* lines 37-46: a scan cycle begins with the kill-switch check (past MaxCycles
\* only the cycle that finds the sentinel and stops is followed)
LoopTop ==
    /\ pc = "loop_top"
    /\ (loop_count < MaxCycles \/ sentinel)
    /\ loop_count' = loop_count + 1
    /\ LET r == check_kill_switch(sentinel) IN
        /\ sentinel' = r.exists
        /\ pc' = IF r.ret THEN "done" ELSE "discover"
        /\ shutdown' = IF r.ret THEN "kill_switch_at_cycle_start" ELSE shutdown
        /\ wait_i' = IF r.ret THEN 0 ELSE wait_i
    /\ idle_unpolled' = 0
    /\ UNCHANGED <<call, TRADING_MODE, trade_count, processed_markets, markets, i, cur,
                   last_call, trade_log, exchange_orders, error_cause>>

\* lines 48-59: discovery; with no markets, time.sleep(300) and continue
Discover ==
    /\ pc = "discover"
    /\ \E ms \in MarketLists :
        /\ markets' = ms
        /\ IF ms = <<>>
           THEN /\ idle_unpolled' = idle_unpolled + NO_MARKETS_SLEEP
                /\ pc' = "loop_top"
                /\ i' = i
           ELSE /\ idle_unpolled' = idle_unpolled
                /\ pc' = "for"
                /\ i' = 1
    /\ UNCHANGED <<call, TRADING_MODE, sentinel, loop_count, trade_count, processed_markets,
                   cur, wait_i, last_call, trade_log, exchange_orders, error_cause, shutdown>>

\* lines 62-64: a market already in processed_markets is skipped
SkipProcessed ==
    /\ pc = "for"
    /\ i <= Len(markets)
    /\ markets[i] \in processed_markets
    /\ i' = i + 1
    /\ UNCHANGED <<call, pc, TRADING_MODE, sentinel, loop_count, trade_count,
                   processed_markets, markets, cur, wait_i, idle_unpolled, last_call,
                   trade_log, exchange_orders, error_cause, shutdown>>

\* lines 66-116 and 138-146: one market up to the sizing of its position
Analyze ==
    /\ pc = "for"
    /\ i <= Len(markets)
    /\ markets[i] \notin processed_markets
    /\ \E vol \in BotVolumes, qf \in BotFeatures, fp \in BotFundProbs,
          price \in BotPrices, rounds_down \in BOOLEAN :
        LET ticker == markets[i]
            hybrid_prob == generate_hybrid_forecast(fp, qf)
            edge == EdgeOf(hybrid_prob, price)
            position_size == calculate_position_size(edge.v, price, rounds_down)
            next_market == /\ processed_markets' = processed_markets \cup {ticker}
                           /\ i' = i + 1
                           /\ pc' = "for"
                           /\ cur' = NoCur
                           /\ error_cause' = error_cause
            \* lines 138-141: the edge does not exceed the threshold; the locals
            \* keep the edge that was computed
            no_edge == /\ processed_markets' = processed_markets \cup {ticker}
                       /\ i' = i + 1
                       /\ pc' = "for"
                       /\ cur' = IF edge.tag = "num"
                                 THEN [ticker |-> ticker, position_size |-> 0,
                                       price |-> price, edge |-> edge.v,
                                       sentinel_at_start |-> sentinel]
                                 ELSE NoCur
                       /\ error_cause' = error_cause
        IN
        IF vol < MIN_MARKET_LIQUIDITY \/ DOMAIN qf = {} THEN next_market
        ELSE IF ~EdgeExceedsThreshold(edge) THEN no_edge
        ELSE IF position_size.tag = "raise"
             THEN /\ pc' = "except"
                  /\ error_cause' = "calculate_position_size"
                  /\ cur' = NoCur
                  /\ UNCHANGED <<processed_markets, i>>
        ELSE IF position_size.v > 0
             THEN /\ pc' = "validate"
                  /\ cur' = [ticker |-> ticker, position_size |-> position_size.v,
                             price |-> price, edge |-> edge.v,
                             sentinel_at_start |-> sentinel]
                  /\ UNCHANGED <<processed_markets, i, error_cause>>
        ELSE next_market
    /\ UNCHANGED <<call, TRADING_MODE, sentinel, loop_count, trade_count, markets, wait_i,
                   idle_unpolled, last_call, trade_log, exchange_orders, shutdown>>

\* lines 118-120: the order is validated before execution
Validate ==
    /\ pc = "validate"
    /\ LET ok == validate_order(cur.ticker, "yes", cur.position_size, cur.price) IN
        /\ last_call' = [fn |-> "validate_order",
                         args |-> Order(cur.ticker, "yes", cur.position_size, cur.price),
                         ret |-> ok]
        /\ IF ok
           THEN /\ pc' = "place"
                /\ UNCHANGED <<processed_markets, i, cur>>
           ELSE /\ processed_markets' = processed_markets \cup {cur.ticker}
                /\ i' = i + 1
                /\ pc' = "for"
                /\ cur' = NoCur
    /\ UNCHANGED <<call, TRADING_MODE, sentinel, loop_count, trade_count, markets, wait_i,
                   idle_unpolled, trade_log, exchange_orders, error_cause, shutdown>>

\* lines 122-127 with kalshi_client.place_order: in DEMO nothing is sent; in LIVE
\* create_order succeeds or raises, and the exception is caught and printed
PlaceOrder ==
    /\ pc = "place"
    /\ \E accepted \in BOOLEAN :
        LET order == Order(cur.ticker, "yes", cur.position_size, cur.price) IN
        /\ last_call' = [fn |-> "place_order", args |-> order, ret |-> FALSE]
        /\ exchange_orders' = IF TRADING_MODE # "DEMO" /\ accepted
                              THEN Append(exchange_orders, order)
                              ELSE exchange_orders
    /\ pc' = "log"
    /\ UNCHANGED <<call, TRADING_MODE, sentinel, loop_count, trade_count, processed_markets,
                   markets, i, cur, wait_i, idle_unpolled, trade_log, error_cause, shutdown>>

\* lines 129-137 and 143-146 with RiskManager.log_trade: the append succeeds, or
\* open/write raises and the exception leaves log_trade
LogTrade ==
    /\ pc = "log"
    /\ last_call' = [fn |-> "log_trade",
                     args |-> Order(cur.ticker, "yes", cur.position_size, cur.price),
                     ret |-> FALSE]
    /\ \E written \in BOOLEAN :
        IF written
        THEN /\ trade_log' = Append(trade_log, TradeLine(cur.ticker, "yes",
                                        cur.position_size, cur.price, cur.edge))
             /\ trade_count' = trade_count + 1
             /\ processed_markets' = processed_markets \cup {cur.ticker}
             /\ i' = i + 1
             /\ pc' = "for"
             /\ error_cause' = error_cause
        ELSE /\ pc' = "except"
             /\ error_cause' = "log_trade"
             /\ UNCHANGED <<trade_log, trade_count, processed_markets, i>>
    /\ cur' = NoCur
    /\ UNCHANGED <<call, TRADING_MODE, sentinel, loop_count, markets, wait_i,
                   idle_unpolled, exchange_orders, shutdown>>

\* lines 148-159: the scan is over; the cache is cleared and the wait begins
\* (markets, the loop position and the locals of the last market are dead until
\* the next scan assigns them again)
ScanDone ==
    /\ pc = "for"
    /\ i > Len(markets)
    /\ processed_markets' = {}
    /\ wait_i' = 0
    /\ pc' = "wait_sleep"
    /\ markets' = <<>>
    /\ i' = 0
    /\ cur' = NoCur
    /\ UNCHANGED <<call, TRADING_MODE, sentinel, loop_count, trade_count,
                   idle_unpolled, last_call, trade_log, exchange_orders, error_cause, shutdown>>

\* lines 163-164: time.sleep(10) of the wait between scans
WaitSleep ==
    /\ pc = "wait_sleep"
    /\ wait_i < WAIT_TIME \div POLL_INTERVAL
    /\ idle_unpolled' = idle_unpolled + POLL_INTERVAL
    /\ pc' = "wait_check"
    /\ UNCHANGED <<call, TRADING_MODE, sentinel, loop_count, trade_count, processed_markets,
                   markets, i, cur, wait_i, last_call, trade_log, exchange_orders,
                   error_cause, shutdown>>

\* lines 165-167: the kill-switch check of the wait between scans
WaitCheck ==
    /\ pc = "wait_check"
    /\ LET r == check_kill_switch(sentinel) IN
        /\ sentinel' = r.exists
        /\ pc' = IF r.ret THEN "done" ELSE "wait_sleep"
        /\ shutdown' = IF r.ret THEN "kill_switch_in_wait" ELSE shutdown
        /\ wait_i' = IF r.ret THEN 0 ELSE wait_i + 1
    /\ idle_unpolled' = 0
    /\ UNCHANGED <<call, TRADING_MODE, loop_count, trade_count, processed_markets,
                   markets, i, cur, last_call, trade_log, exchange_orders, error_cause>>

\* line 163: the wait loop has run wait_time // 10 times
WaitOver ==
    /\ pc = "wait_sleep"
    /\ wait_i >= WAIT_TIME \div POLL_INTERVAL
    /\ pc' = "loop_top"
    /\ wait_i' = 0
    /\ UNCHANGED <<call, TRADING_MODE, sentinel, loop_count, trade_count, processed_markets,
                   markets, i, cur, idle_unpolled, last_call, trade_log,
                   exchange_orders, error_cause, shutdown>>

\* lines 173-176: except Exception as e: time.sleep(60), then the next cycle
\* (e ends with the handler)
Except ==
    /\ pc = "except"
    /\ idle_unpolled' = idle_unpolled + ERROR_SLEEP
    /\ pc' = "loop_top"
    /\ markets' = <<>>
    /\ i' = 0
    /\ error_cause' = "none"
    /\ UNCHANGED <<call, TRADING_MODE, sentinel, loop_count, trade_count, processed_markets,
                   cur, wait_i, last_call, trade_log, exchange_orders, shutdown>>

\* lines 169-171: Ctrl-C inside the try block ends the loop (outside it, at the
\* check of line 44 or in the handler's sleep, it would end the process instead);
\* the locals of the loop are dead once it has ended
KeyboardInterrupt ==
    /\ pc \in {"discover", "for", "validate", "place", "log", "wait_sleep", "wait_check"}
    /\ pc' = "done"
    /\ shutdown' = "keyboard_interrupt"
    /\ markets' = <<>>
    /\ i' = 0
    /\ cur' = NoCur
    /\ wait_i' = 0
    /\ idle_unpolled' = 0
    /\ UNCHANGED <<call, TRADING_MODE, sentinel, loop_count, trade_count, processed_markets,
                   last_call, trade_log, exchange_orders, error_cause>>

\* the operator creates KILL_SWITCH_FILE
CreateSentinel ==
    /\ ~sentinel
    /\ sentinel' = TRUE
    /\ UNCHANGED <<call, pc, TRADING_MODE, loop_count, trade_count, processed_markets,
                   markets, i, cur, wait_i, idle_unpolled, last_call, trade_log,
                   exchange_orders, error_cause, shutdown>>

Next ==
    \/ LoopTop \/ Discover \/ SkipProcessed \/ Analyze \/ Validate \/ PlaceOrder
    \/ LogTrade \/ ScanDone \/ WaitSleep \/ WaitCheck \/ WaitOver \/ Except
    \/ KeyboardInterrupt \/ CreateSentinel

Spec == Init /\ [][Next]_vars

\* one step of run_bot itself: every statement of the loop, the collaborator
\* calls and the sleeps included, returns
RunBotStep ==
    \/ LoopTop \/ Discover \/ SkipProcessed \/ Analyze \/ Validate \/ PlaceOrder
    \/ LogTrade \/ ScanDone \/ WaitSleep \/ WaitCheck \/ WaitOver \/ Except

\* run_bot keeps running while it has a next statement; the operator (creating
\* the sentinel, Ctrl-C) is under no obligation
SpecLive == Init /\ [][Next]_vars /\ WF_vars(RunBotStep)

SpecCore == Init /\ [][NextCore]_vars

----------------------------------------------------------------------------
(* Properties of the decision core (SpecCore) *)

IsForecast == call.fn = "generate_hybrid_forecast"
IsSize == call.fn = "calculate_position_size"
IsValidate == call.fn = "validate_order"

\* fusion ran to its end on numbers: the feature set is not empty, no value read
\* raised, and neither macd_hist nor rsi_14 is NaN
FusedCleanly(fundamental_prob, qf) ==
    /\ DOMAIN qf # {}
    /\ Ensemble(fundamental_prob, qf).tag = "num"

C2_ContractsNeverNegative ==
    (IsSize /\ call.args.market_price \in 1..99) =>
        /\ call.ret.tag = "ret"
        /\ call.ret.v >= 0

\* C3: for every edge <= 0 and every market price, calculate_position_size
\* returns exactly 0 contracts.
C3_NoEdgeNoBet ==
    (IsSize /\ call.args.edge <= 0) => call.ret = Ret(0)

\* edge 0 at 10 cents: 0 contracts, where the Kelly formula would give -2000
C3_Witness ==
    /\ IsSize
    /\ call.args.edge = 0
    /\ call.args.market_price = 10
    /\ KellySize(0, 10, FALSE) = Ret(-2000)
    /\ call.ret = Ret(0)

\* C4: validate_order approves exactly when 1 <= count <= 1000, 1 <= price <= 99
\* and count * price / 100 <= MAX_POSITION_SIZE; it returns a value in every case.
C4_ValidateIff ==
    IsValidate =>
        /\ call.ret \in BOOLEAN
        /\ call.ret = (/\ 1 <= call.args.count /\ call.args.count <= 1000
                       /\ 1 <= call.args.price /\ call.args.price <= 99
                       /\ call.args.count * call.args.price <= MAX_POSITION_SIZE * 100)

\* 201 contracts at 50 cents (notional 100.50) are rejected on the notional alone
C4_Witness ==
    /\ IsValidate
    /\ call.args.count = 201
    /\ call.args.price = 50
    /\ call.ret = FALSE

\* C6: check_kill_switch returns True exactly when the sentinel exists and the
\* sentinel does not exist afterwards; a check right after one that returned
\* True returns False; with no sentinel the check changes nothing.
C6_KillSwitchOneShot ==
    [][call'.fn = "check_kill_switch" =>
          /\ call'.ret = sentinel
          /\ sentinel' = FALSE
          /\ (~sentinel => sentinel' = sentinel)
          /\ (call.fn = "check_kill_switch" /\ call.ret) => call'.ret = FALSE]_vars

\* a check has just consumed the sentinel
C6_Witness ==
    /\ call.fn = "check_kill_switch"
    /\ call.args.exists
    /\ call.ret
    /\ ~sentinel

----------------------------------------------------------------------------
(* Properties of the event loop (Spec) *)

CurOrder == Order(cur.ticker, "yes", cur.position_size, cur.price)

\* C5: every place_order call comes right after a validate_order call that
\* returned True for the same (ticker, side, count, price), so every order
\* submitted has price in 1..99, count in 1..1000 and notional <= MAX_POSITION_SIZE.
C5_PlaceOnlyValidated ==
    /\ pc = "place" =>
          last_call = [fn |-> "validate_order", args |-> CurOrder, ret |-> TRUE]
    /\ last_call.fn = "place_order" =>
          /\ pc = "log" => last_call.args = CurOrder
          /\ last_call.args.price \in 1..99
          /\ last_call.args.count \in 1..1000
          /\ last_call.args.count * last_call.args.price <= MAX_POSITION_SIZE * 100

\* an order of 218 contracts at 40 cents has been validated and placed
C5_Witness ==
    /\ pc = "log"
    /\ last_call.fn = "place_order"
    /\ last_call.args.count = 218
    /\ last_call.args.price = 40

\* C7 as stated: in every idle wait of the loop no more than one polling
\* interval (10 s) passes without a check_kill_switch call.
C7_IdleWaitsPolled == idle_unpolled <= POLL_INTERVAL

\* C8 as stated: a sentinel that exists when a market's iteration begins is
\* detected before that market is analyzed, so no order is validated, placed
\* or logged for that market.
C8_CheckedPerMarket ==
    pc \in {"validate", "place", "log"} => ~cur.sentinel_at_start

\* C8 amended: the kill switch is checked at the start of each scan cycle, not
\* of each market: a sentinel that exists when a scan cycle begins stops
\* run_bot before any market of that cycle is analyzed, the sentinel is
\* consumed, and once run_bot has stopped no order is placed or logged.
C8_StopAtCycleStart ==
    /\ [][(pc = "loop_top" /\ sentinel /\ pc' # pc) =>
             (pc' = "done" /\ ~sentinel')]_vars
    /\ [][pc = "done" =>
             (pc' = "done" /\ UNCHANGED <<last_call, exchange_orders, trade_log>>)]_vars

\* the second cycle found the sentinel at its start, after a first cycle that traded
C8_Witness ==
    /\ pc = "done"
    /\ shutdown = "kill_switch_at_cycle_start"
    /\ loop_count = 2
    /\ trade_log # <<>>

\* C9 as stated: a failing append in log_trade does not leave the recorder, so
\* it never reaches the main loop's exception handler and never ends the scan.
C9_LogFailureContained == error_cause # "log_trade"

\* the orders the trade log records, in order
LoggedOrders ==
    [k \in 1..Len(trade_log) |->
        Order(trade_log[k].ticker, trade_log[k].side, trade_log[k].count, trade_log[k].price)]

\* C10 as stated: between market iterations the trade log holds exactly one
\* entry per order executed on the exchange, in the order of execution.
C10_LogMatchesExecuted ==
    pc \in {"for", "wait_sleep", "wait_check", "loop_top", "discover"} =>
        LoggedOrders = exchange_orders

----------------------------------------------------------------------------
(* Error handling and scenarios of the decision core (SpecCore) *)

\* C11 as stated: a computational failure inside position sizing (the division
\* by a price of 0 cents with edge > 0) is recovered inside
\* calculate_position_size, which returns 0 contracts and raises nothing.
C11_SizingNeverRaises ==
    IsSize => /\ call.ret.tag = "ret"
              /\ (call.args.market_price = 0 /\ call.args.edge > 0) => call.ret = Ret(0)

\* a value of the wrong type is read by an operation that raises on it:
\* -macd_hist, rsi < 30, current_volume > 0, obv > 0 (evaluated only when
\* current_volume > 0 holds) and hours_remaining < 6
MalformedRead(qf) ==
    \/ Get(qf, "macd_hist", 0) = Str
    \/ Get(qf, "rsi_14", 50) = Str
    \/ Get(qf, "volume_sma_5", 1000) = Str
    \/ /\ Get(qf, "volume_sma_5", 1000).tag = "num"
       /\ Get(qf, "volume_sma_5", 1000).v > 0
       /\ Get(qf, "obv", 0) = Str
    \/ Get(qf, "hours_to_expiration", 24) = Str

\* C12: an exception raised while a non-empty feature set is fused (a malformed
\* feature value) makes generate_hybrid_forecast return fundamental_prob
\* unchanged, and generate_hybrid_forecast never raises to its caller.
C12_FusionFailureFallsBack ==
    IsForecast =>
        /\ call.ret.tag # "raise"
        /\ (DOMAIN call.args.quant_features # {} /\ MalformedRead(call.args.quant_features))
              => call.ret = Num(call.args.fundamental_prob * 1000)

\* obv is a string and is read (volume_sma_5 = 1000 > 0), all other features
\* are numbers: the fallback returns fundamental_prob = 1.2, outside the clamp
C12_Witness ==
    /\ IsForecast
    /\ call.args.fundamental_prob = 1200
    /\ call.args.quant_features =
          Features(Num(2), Num(45), Num(1000), Str, Num(48))
    /\ call.ret = Num(1200000)

\* C13: with the empty feature set generate_hybrid_forecast returns exactly
\* fundamental_prob, for every fundamental_prob: nothing is normalized,
\* weighted, dampened or clamped (0.5 gives exactly 0.5, 1.2 gives 1.2).
C13_EmptyFeaturesShortCircuit ==
    (IsForecast /\ DOMAIN call.args.quant_features = {}) =>
        call.ret = Num(call.args.fundamental_prob * 1000)

\* fundamental_prob = 0.0 with no features: 0.0 is returned, where fusing the
\* default signals would give the clamped 0.325
C13_Witness ==
    /\ IsForecast
    /\ DOMAIN call.args.quant_features = {}
    /\ call.args.fundamental_prob = 0
    /\ call.ret = Num(0)
    /\ Ensemble(0, call.args.quant_features) = Num(325000)

IsSignals == call.fn = "signals"

\* the value of a feature in the call's feature set, or its default
ArgFeature(key, default) == Get(call.args.quant_features, key, default)

\* C14 as stated: mean_reversion is continuous in rsi_14 at 30 and 70: the
\* signal at 30 (middle formula) is the value the rsi < 30 formula approaches
\* at 30, and the signal at 70 is the value the rsi > 70 formula approaches at 70.
C14_MeanReversionContinuous ==
    IsSignals =>
        /\ ArgFeature("rsi_14", 50) = Num(30) => call.ret.mean_reversion = Num(MeanRevLow(30))
        /\ ArgFeature("rsi_14", 50) = Num(70) => call.ret.mean_reversion = Num(MeanRevHigh(70))

\* C14 amended: mean_reversion jumps at both seams.  At rsi_14 = 30 and 70 the
\* middle formula applies and gives 0.54 and 0.46, while the rsi < 30 formula
\* approaches 0.70 at 30 and the rsi > 70 formula approaches 0.30 at 70: a
\* downward jump of 0.16 at each seam (0.71 at 29, 0.29 at 71).
C14_MeanReversionJumpsAtSeams ==
    IsSignals =>
        /\ ArgFeature("rsi_14", 50) = Num(29) => call.ret.mean_reversion = Num(710)
        /\ ArgFeature("rsi_14", 50) = Num(30) =>
              /\ call.ret.mean_reversion = Num(540)
              /\ MeanRevLow(30) - call.ret.mean_reversion.v = 160
        /\ ArgFeature("rsi_14", 50) = Num(70) =>
              /\ call.ret.mean_reversion = Num(460)
              /\ call.ret.mean_reversion.v - MeanRevHigh(70) = 160
        /\ ArgFeature("rsi_14", 50) = Num(71) => call.ret.mean_reversion = Num(290)

\* the signals were computed at the seam rsi_14 = 30
C14_Witness ==
    /\ IsSignals
    /\ ArgFeature("rsi_14", 50) = Num(30)
    /\ call.ret.mean_reversion = Num(540)

\* fundamental_prob is in [0,1] and every feature present is a number in its
\* documented range: rsi_14 in 0..100, volume_sma_5 >= 0, hours_to_expiration
\* >= 0, macd_hist and obv of either sign
InDocumentedRanges(fundamental_prob, qf) ==
    /\ fundamental_prob >= 0 /\ fundamental_prob <= 1000
    /\ \A k \in DOMAIN qf : qf[k].tag = "num"
    /\ "rsi_14" \in DOMAIN qf => (qf["rsi_14"].v >= 0 /\ qf["rsi_14"].v <= 100)
    /\ "volume_sma_5" \in DOMAIN qf => qf["volume_sma_5"].v >= 0
    /\ "hours_to_expiration" \in DOMAIN qf => qf["hours_to_expiration"].v >= 0

\* C15: for fundamental_prob in [0,1] and features in their documented ranges
\* (any key absent), each of the five signals the normalizer computes is a
\* probability in [0,1].
C15_SignalsAreProbabilities ==
    (IsSignals /\ InDocumentedRanges(call.args.fundamental_prob, call.args.quant_features)) =>
        \A n \in SignalNames :
            /\ call.ret[n].tag = "num"
            /\ call.ret[n].v >= 0
            /\ call.ret[n].v <= 1000

\* the ends of the ranges: rsi_14 = 0 gives mean_reversion 1.0, macd_hist = -10
\* gives momentum 0.0, fundamental_prob = 1.0 at expiration gives time_decay 0.95
C15_Witness ==
    /\ IsSignals
    /\ InDocumentedRanges(call.args.fundamental_prob, call.args.quant_features)
    /\ call.args.fundamental_prob = 1000
    /\ ArgFeature("rsi_14", 50) = Num(0)
    /\ ArgFeature("macd_hist", 0) = Num(-1000)
    /\ ArgFeature("obv", 0) = Num(-5000)
    /\ ArgFeature("hours_to_expiration", 24) = Num(0)
    /\ call.ret.mean_reversion = Num(1000)
    /\ call.ret.momentum = Num(0)
    /\ call.ret.time_decay = Num(950)

\* train_model.py, lines 55-62: the sample inputs
sample_fundamental_prob == 650
sample_quant_features == Features(Num(2), Num(45), Num(1000), Num(5000), Num(48))

IsSample ==
    /\ call.args.fundamental_prob = sample_fundamental_prob
    /\ call.args.quant_features = sample_quant_features

\* x is d to within tol: the figure d rounded at its last digit
Near(x, d, tol) == x - d <= tol /\ d - x <= tol

\* weighted_sum / total_weight of a signals dictionary, in hundred-thousandths
WeightedMean(signals) ==
    (SumOver([n \in SignalNames |-> signals[n].v * signal_weights[n]], SignalNames) * 100)
        \div SumOver(signal_weights, SignalNames)

\* "BUY" if edge > MIN_EDGE_THRESHOLD else "SKIP" (train_model.py:80, main.py:111)
ActionAt(hybrid_prob, market_price) ==
    IF EdgeExceedsThreshold(EdgeOf(hybrid_prob, market_price)) THEN "BUY" ELSE "SKIP"

\* C16 as stated: for the sample inputs the signals are momentum ~ 0.55,
\* mean_reversion ~ 0.51, volume ~ 0.52 and time_decay = 0.65, the weighted
\* mean is ~ 0.592 and the dampened hybrid ~ 0.564; at 50 cents the edge
\* ~ 0.064 gives SKIP, at 40 cents the edge ~ 0.164 gives BUY with a nonzero
\* contract count.
C16_ScenarioAsStated ==
    /\ (IsSignals /\ IsSample) =>
          /\ Near(call.ret.momentum.v, 550, 5)
          /\ Near(call.ret.mean_reversion.v, 510, 5)
          /\ Near(call.ret.volume.v, 520, 5)
          /\ call.ret.time_decay = Num(650)
          /\ Near(WeightedMean(call.ret), 59200, 50)
    /\ (IsForecast /\ IsSample) =>
          /\ Near(call.ret.v, 564000, 500)
          /\ Near(EdgeOf(call.ret, 50).v, 64000, 500)
          /\ ActionAt(call.ret, 50) = "SKIP"
          /\ Near(EdgeOf(call.ret, 40).v, 164000, 500)
          /\ ActionAt(call.ret, 40) = "BUY"
          /\ \A rounds_down \in BOOLEAN :
                LET n == calculate_position_size(EdgeOf(call.ret, 40).v, 40, rounds_down)
                IN n.tag = "ret" /\ n.v # 0

\* C16 amended: for the sample inputs the signals are momentum ~ 0.55,
\* mean_reversion ~ 0.51, volume = 0.50 (ratio min(5, 10) / 10 = 0.5) and
\* time_decay = 0.65, the weighted mean is ~ 0.589 and the dampened hybrid
\* ~ 0.562; at 50 cents the edge ~ 0.062 gives SKIP, at 40 cents the edge
\* ~ 0.162 gives BUY with 77 contracts.
C16_ScenarioAsComputed ==
    /\ (IsSignals /\ IsSample) =>
          /\ Near(call.ret.momentum.v, 550, 5)
          /\ Near(call.ret.mean_reversion.v, 510, 5)
          /\ call.ret.volume = Num(500)
          /\ call.ret.time_decay = Num(650)
          /\ Near(WeightedMean(call.ret), 58900, 50)
    /\ (IsForecast /\ IsSample) =>
          /\ Near(call.ret.v, 562000, 500)
          /\ Near(EdgeOf(call.ret, 50).v, 62000, 500)
          /\ ActionAt(call.ret, 50) = "SKIP"
          /\ Near(EdgeOf(call.ret, 40).v, 162000, 500)
          /\ ActionAt(call.ret, 40) = "BUY"
          /\ \A rounds_down \in BOOLEAN :
                calculate_position_size(EdgeOf(call.ret, 40).v, 40, rounds_down) = Ret(77)

\* the sample inputs were fused
C16_Witness ==
    /\ IsForecast
    /\ IsSample
    /\ call.ret.tag = "num"
    /\ ActionAt(call.ret, 40) = "BUY"

\* calculate_position_size, lines 44-62: the intermediate values of the sizing
\* our_prob = np.clip(market_price / 100.0 + edge, 0.01, 0.99), in millionths
our_prob(edge, market_price) == Clip(market_price * 10000 + edge, 10000, 990000)

\* kelly_full = win_prob - lose_prob, in millionths
kelly_full(edge, market_price) ==
    our_prob(edge, market_price) - (1000000 - our_prob(edge, market_price))

\* kelly_adjusted = kelly_full * self.kelly_fraction (0.25), in hundred-millionths
kelly_adjusted(edge, market_price) == kelly_full(edge, market_price) * 25

\* C17: for edge = 0.20 at 50 cents calculate_position_size computes
\* our_prob = 0.70, kelly_full = 0.40 and kelly_adjusted = 0.10 and returns a
\* count > 0 (the dollars 0.10 * 100 / 0.10 = 100 at 0.50 a contract), and
\* validate_order approves that count at that price exactly when its notional
\* count * 0.50 is <= MAX_POSITION_SIZE.
C17_ScenarioThree ==
    (IsSize /\ call.args.edge = 200000 /\ call.args.market_price = 50) =>
        /\ our_prob(200000, 50) = 700000
        /\ kelly_full(200000, 50) = 400000
        /\ kelly_adjusted(200000, 50) = 10000000
        /\ call.ret.tag = "ret"
        /\ call.ret.v > 0
        /\ \E rounds_down \in BOOLEAN :
              call.ret.v = FloatQuotient(
                  Min(MAX_POSITION_SIZE * 1000000,
                      (kelly_adjusted(200000, 50) \div 10) * MAX_POSITION_SIZE),
                  50 * 10000, rounds_down)
        /\ validate_order("T1", "yes", call.ret.v, 50)
              = (call.ret.v * 50 <= MAX_POSITION_SIZE * 100)

\* the sizing returned 200 contracts, whose notional is exactly MAX_POSITION_SIZE
C17_Witness ==
    /\ IsSize
    /\ call.args.edge = 200000
    /\ call.args.market_price = 50
    /\ call.ret = Ret(200)
    /\ validate_order("T1", "yes", 200, 50)

\* a signals call with fundamental_prob in [0,1] and hours_to_expiration a
\* number or absent
IsTimeDecayCase ==
    /\ IsSignals
    /\ call.args.fundamental_prob >= 0
    /\ call.args.fundamental_prob <= 1000
    /\ ArgFeature("hours_to_expiration", 24).tag = "num"

\* C18 as stated: for hours_to_expiration < 24 time_decay is on the same side
\* of 0.5 as fundamental_prob and at least as far from 0.5 (0.5 itself stays
\* 0.5); for hours_to_expiration >= 24 or absent it equals fundamental_prob.
C18_TimeDecayAmplifies ==
    IsTimeDecayCase =>
        LET fp == call.args.fundamental_prob
            hours == ArgFeature("hours_to_expiration", 24).v
            td == call.ret.time_decay
        IN /\ td.tag = "num"
           /\ hours >= 24 => td.v = fp
           /\ hours < 24 => /\ fp > 500 => td.v >= fp
                            /\ fp < 500 => td.v <= fp
                            /\ fp = 500 => td.v = 500

\* C18 amended: for hours_to_expiration < 24 time_decay moves fundamental_prob
\* by d toward the extreme it favours and bounds the result to [lo, hi], with
\* (d, lo, hi) = (0.2, 0.05, 0.95) under 6 hours and (0.1, 0.1, 0.9) under 24.
\* It stays on the side of 0.5 of a fundamental_prob other than 0.5, and is at
\* least as far from 0.5 when fundamental_prob is within [lo, hi]; a
\* fundamental_prob beyond a bound is pulled back to the bound (1.0 gives 0.95),
\* and a fundamental_prob of exactly 0.5 is moved down (to 0.3, or 0.4).  For
\* hours_to_expiration >= 24 or absent time_decay equals fundamental_prob.
C18_TimeDecayBoundedPush ==
    IsTimeDecayCase =>
        LET fp == call.args.fundamental_prob
            hours == ArgFeature("hours_to_expiration", 24).v
            td == call.ret.time_decay
            d == IF hours < 6 THEN 200 ELSE 100
            lo == IF hours < 6 THEN 50 ELSE 100
            hi == IF hours < 6 THEN 950 ELSE 900
        IN /\ td.tag = "num"
           /\ hours >= 24 => td.v = fp
           /\ hours < 24 =>
                 /\ fp > 500 => /\ td.v > 500
                                /\ fp <= hi => td.v >= fp
                                /\ fp > hi => td.v = hi
                 /\ fp < 500 => /\ td.v < 500
                                /\ fp >= lo => td.v <= fp
                                /\ fp < lo => td.v = lo
                 /\ fp = 500 => td.v = 500 - d

\* at expiration a fundamental_prob of exactly 0.5 gives time_decay 0.3
C18_Witness ==
    /\ IsTimeDecayCase
    /\ call.args.fundamental_prob = 500
    /\ ArgFeature("hours_to_expiration", 24) = Num(0)
    /\ call.ret.time_decay = Num(300)

----------------------------------------------------------------------------
(* Further properties of the event loop (Spec) *)

C20_ProcessedEmptyAtCycleStart ==
    pc \in {"loop_top", "discover"} => processed_markets = {}

\* C21: cooperative shutdown is live and final.  Once the sentinel exists,
\* run_bot eventually stops (on the kill-switch check that finds it, unless the
\* operator interrupts from the keyboard first); a kill-switch check that
\* returns True stops run_bot at once and consumes the sentinel; and once
\* run_bot has stopped there is no further place_order or log_trade call.
C21_ShutdownLiveAndFinal ==
    /\ sentinel ~> (pc = "done" /\ shutdown # "none")
    /\ [][(/\ pc \in {"loop_top", "wait_check"} /\ sentinel /\ pc' # pc
            /\ shutdown' # "keyboard_interrupt") =>
             /\ pc' = "done"
             /\ shutdown' \in {"kill_switch_at_cycle_start", "kill_switch_in_wait"}
             /\ ~sentinel']_vars
    /\ [][shutdown # "none" =>
             /\ pc' = "done"
             /\ UNCHANGED <<shutdown, last_call, exchange_orders, trade_log, trade_count>>]_vars

\* the sentinel was created during a scan that traded and was found by a check
\* of the wait loop
C21_Witness ==
    /\ pc = "done"
    /\ shutdown = "kill_switch_in_wait"
    /\ ~sentinel
    /\ trade_log # <<>>

----------------------------------------------------------------------------
(* The sizer against the validator on the BUY path (SpecCore) *)

\* a sizing call on the BUY path: price in 1..99 cents and
\* edge > MIN_EDGE_THRESHOLD
IsBuyPathSize ==
    /\ IsSize
    /\ call.args.market_price \in 1..99
    /\ call.args.edge > MIN_EDGE_THRESHOLD

\* C22 as stated: for every price in 1..99 and every edge > MIN_EDGE_THRESHOLD
\* with price/100 + edge <= 0.95, validate_order approves the count that
\* calculate_position_size returns at that price.
C22_SizerAlwaysApproved ==
    (IsBuyPathSize /\ call.args.market_price * 10000 + call.args.edge <= 950000) =>
        /\ call.ret.tag = "ret"
        /\ validate_order("T1", "yes", call.ret.v, call.args.market_price)

\* C22 amended: on the BUY path the count the sizer returns always passes the
\* notional limit (count * price / 100 <= MAX_POSITION_SIZE) but not always
\* the ceiling of 1000 contracts: validate_order approves it exactly when
\* count <= 1000, which is certain only from 10 cents up; below 10 cents a
\* position of more than 10 dollars per cent of price is rejected.
C22_SizerApprovedUpToCeiling ==
    (IsBuyPathSize /\ call.args.market_price * 10000 + call.args.edge <= 950000) =>
        /\ call.ret.tag = "ret"
        /\ call.ret.v * call.args.market_price <= MAX_POSITION_SIZE * 100
        /\ validate_order("T1", "yes", call.ret.v, call.args.market_price)
              = (call.ret.v <= 1000)
        /\ call.args.market_price >= 10 =>
              validate_order("T1", "yes", call.ret.v, call.args.market_price)

\* edge 0.9 at 5 cents: 100 dollars buy 2000 contracts, which the validator rejects
C22_Witness ==
    /\ IsBuyPathSize
    /\ call.args.market_price = 5
    /\ call.args.edge = 900000
    /\ call.ret = Ret(2000)
    /\ ~validate_order("T1", "yes", call.ret.v, call.args.market_price)

----------------------------------------------------------------------------
(* The least count on the BUY path (SpecCore) *)

\* calculate_position_size, lines 66-73: the dollars after the cap at
\* MAX_POSITION_SIZE and the minimum bet, in micro-dollars
position_dollars(edge, market_price) ==
    LET position_kelly == Min(MAX_POSITION_SIZE * 1000000,
                              (kelly_adjusted(edge, market_price) \div 10)
                                  * MAX_POSITION_SIZE)
    IN IF position_kelly < 1000000 /\ edge > MIN_EDGE_THRESHOLD
       THEN 1000000 ELSE position_kelly

\* calculate_position_size, lines 77-78: the count before the minimum-contract
\* override of lines 81-82
num_contracts(edge, market_price, rounds_down) ==
    FloatQuotient(position_dollars(edge, market_price), market_price * 10000,
                  rounds_down)

\* C23: for every price in 1..99 and every edge > MIN_EDGE_THRESHOLD,
\* calculate_position_size returns at least 1 contract, so the main loop's
\* test position_size > 0 passes; the minimum bet of one dollar already buys
\* a whole contract, so the count is >= 1 before the minimum-contract override
\* and the value returned is that count, untouched by the override.
C23_BuyPathAtLeastOneContract ==
    IsBuyPathSize =>
        LET edge == call.args.edge
            price == call.args.market_price
        IN
        /\ call.ret.tag = "ret"
        /\ call.ret.v >= 1
        /\ position_dollars(edge, price) >= 1000000
        /\ \A rounds_down \in BOOLEAN : num_contracts(edge, price, rounds_down) >= 1
        /\ \E rounds_down \in BOOLEAN :
              call.ret.v = num_contracts(edge, price, rounds_down)

\* edge just above the threshold at 42 cents: Kelly gives next to nothing, the
\* minimum bet of one dollar buys 2 contracts
C23_Witness ==
    /\ IsBuyPathSize
    /\ call.args.edge = MIN_EDGE_THRESHOLD + 1
    /\ call.args.market_price = 42
    /\ kelly_full(call.args.edge, call.args.market_price) = 2
    /\ position_dollars(call.args.edge, call.args.market_price) = 1000000
    /\ call.ret = Ret(2)

=============================================================================
